---------------------------- MODULE Spec2Model ----------------------------
(***************************************************************************)
(* Transaction manager with undo/redo stack (lib/transactions_common.js).  *)
(* One `tx` object (a Transact instance) exists per server process; every  *)
(* session's method calls act on it.  Each action below is one call of the *)
(* public API (or the idle timer firing), run to completion.               *)
(***************************************************************************)
EXTENDS Integers, Sequences, FiniteSets, TLC

(***************************************************************************)
(* Bounds of the model                                                      *)
(***************************************************************************)
MaxTx == 2        \* transaction ids handed out by Transactions.insert
MaxWrites == 2    \* writes on record: queued, in the open ledger, in stored ledgers
MaxAttempts == 1  \* nested start() calls, and stray commits below zero
MaxClock == 4     \* readings of (new Date).getTime()

(***************************************************************************)
(* Values                                                                   *)
(***************************************************************************)
Undefined == 0    \* JavaScript undefined / a field that is not there
NoTx == 0         \* this._transaction_id = null
Blank == 0        \* the '' stored as the value of a synthesized $unset

One == {"s1"}
NoUser == "none"
\* Meteor.userId() of the calling session
userId(by) == CASE by = "s1" -> "u1" [] by = "s2" -> "u2" [] OTHER -> NoUser
requireUser == TRUE
softDelete == FALSE

DocIds == {"d1", "d2"}
KeyOrder == <<"a", "b", "t">>
\* the field that holds an array, when it is there: the array as the set of
\* its elements
ArrayFields == {"t"}
Fields == {KeyOrder[i] : i \in 1..Len(KeyOrder)}
MetaFields == {"transaction_id", "deleted"}

\* A document of the application collection: every field, Undefined when absent
NoFields == [k \in Fields \cup MetaFields |-> Undefined]
NewDocs == {[NoFields EXCEPT !["a"] = 1]}

(***************************************************************************)
(* The document store (Mongo.Collection), as the code uses it               *)
(***************************************************************************)
\* collection.findOne({_id:id}) / find({_id:id}).count()
exists(docs, id) == id \in DOMAIN docs

\* selector {_id:id, deleted:{$exists:false}}
selLive(docs, id) == exists(docs, id) /\ docs[id]["deleted"] = Undefined

\* selector {_id:id, transaction_id:t}
selTx(docs, id, t) == exists(docs, id) /\ docs[id]["transaction_id"] = t

\* collection.insert(doc): a duplicate _id raises; callers test exists() first
collInsert(docs, id, doc) == [i \in DOMAIN docs \cup {id} |-> IF i = id THEN doc ELSE docs[i]]

\* collection.remove({_id:id})
collRemove(docs, id) == [i \in DOMAIN docs \ {id} |-> docs[i]]

\* one update operator applied to a document
applyCommand(doc, command, data) ==
  [k \in DOMAIN doc |->
     IF k \in DOMAIN data
     THEN CASE command = "$set" -> data[k]
            [] command = "$unset" -> Undefined
            [] command = "$inc" -> IF doc[k] = Undefined THEN data[k] ELSE doc[k] + data[k]
            [] command = "$addToSet" -> doc[k] \cup {data[k]}
            [] command = "$pull" -> doc[k] \ {data[k]}
            [] OTHER -> doc[k]
     ELSE doc[k]]

\* a whole modifier {cmd1:{...}, cmd2:{...}} applied to a document
RECURSIVE applyModifier(_, _)
applyModifier(doc, updates) ==
  IF updates = <<>> THEN doc
  ELSE applyModifier(applyCommand(doc, Head(updates).command, Head(updates).data), Tail(updates))

\* collection.update({_id:id}, updates): no document, no change
collUpdate(docs, id, updates) ==
  IF exists(docs, id) THEN [docs EXCEPT ![id] = applyModifier(docs[id], updates)] ELSE docs

(***************************************************************************)
(* State                                                                    *)
(***************************************************************************)
VARIABLES
  _transaction_id,   \* id of the open transaction, NoTx when none
  _autoTransaction,  \* the open transaction was opened by _openAutoTransaction
  _executionStack,   \* deferred writes, oldest first
  _items,            \* the ledger being built: inserted, updated, removed
  _startAttempts,    \* nested start() calls
  _rollback,         \* rollback flag
  _rollbackReason,   \* '' or the reason recorded with the flag
  _context,          \* context map of the open transaction
  _autoCancel,       \* TRUE while the handle names a pending timeout
  timers,            \* the pending timeouts, oldest first, each with the id of
                     \* the transaction it was set for
  docs,              \* the application collection: _id -> document
  Transactions,      \* the transactions collection: _id -> record
  nextId,            \* the next _id Transactions.insert hands out
  clock,             \* (new Date).getTime()
  last,              \* the call that ran last: who, what, its result
  snap               \* the latest transaction: the store before and after it

vars == <<_transaction_id, _autoTransaction, _executionStack, _items, _startAttempts,
          _rollback, _rollbackReason, _context, _autoCancel, timers, docs, Transactions,
          nextId, clock, last, snap>>

NoItems == [inserted |-> <<>>, updated |-> <<>>, removed |-> <<>>]
NoContext == <<>>

\* the state as one value, so that a handler is a function from state to state;
\* ret is what the call returns, cb what it hands to the completion callback,
\* drained the number of deferred writes it took off the execution stack,
\* raise whether the store raises on the writes of the call (a validation that
\* fails, a connection that is lost)
Cur ==
  [_transaction_id |-> _transaction_id, _autoTransaction |-> _autoTransaction,
   _executionStack |-> _executionStack, _items |-> _items,
   _startAttempts |-> _startAttempts, _rollback |-> _rollback,
   _rollbackReason |-> _rollbackReason, _context |-> _context,
   _autoCancel |-> _autoCancel, timers |-> timers,
   docs |-> docs, Transactions |-> Transactions,
   nextId |-> nextId, clock |-> clock,
   ret |-> "undefined", cb |-> "none", drained |-> 0, raise |-> FALSE]

\* _.isEmpty(this._items) && _.isEmpty(this._executionStack)
nothingToDo(s) == s._items = NoItems /\ s._executionStack = <<>>

\* Meteor.clearTimeout(this._autoCancel): the timeout the handle names, the
\* one set last, is pending no more; a handle of a timeout that has fired or
\* was cleared before clears nothing
clearTimeout(s) ==
  IF s._autoCancel
  THEN [s EXCEPT !.timers = SubSeq(@, 1, Len(@) - 1), !._autoCancel = FALSE]
  ELSE s

\* this._autoCancel = Meteor.setTimeout(...): one more pending timeout
setTimeout(s) ==
  [s EXCEPT !.timers = Append(@, s._transaction_id), !._autoCancel = TRUE]

\* a reset that forgets to empty the execution stack
_cleanResetKeepingStack(s) ==
  clearTimeout([s EXCEPT !._transaction_id = NoTx, !._autoTransaction = FALSE,
                         !._items = NoItems, !._startAttempts = 0, !._rollback = FALSE,
                         !._rollbackReason = "", !._context = NoContext])

\* a reset that leaves the ledger as it is
_cleanResetKeepingItems(s) ==
  clearTimeout([s EXCEPT !._transaction_id = NoTx, !._autoTransaction = FALSE,
                         !._executionStack = <<>>, !._startAttempts = 0,
                         !._rollback = FALSE, !._rollbackReason = "",
                         !._context = NoContext])

\* a reset that leaves the timeout pending
_cleanResetKeepingTimer(s) ==
  [s EXCEPT !._transaction_id = NoTx, !._autoTransaction = FALSE, !._items = NoItems,
            !._executionStack = <<>>, !._startAttempts = 0, !._rollback = FALSE,
            !._rollbackReason = "", !._context = NoContext]

\* Transact.prototype._cleanReset
_cleanReset(s) ==
  clearTimeout([s EXCEPT !._transaction_id = NoTx, !._autoTransaction = FALSE,
                         !._items = NoItems, !._executionStack = <<>>,
                         !._startAttempts = 0, !._rollback = FALSE,
                         !._rollbackReason = "", !._context = NoContext])

\* Transact.prototype._resetAutoCancel (server): clear the timeout, set a new one
_resetAutoCancel(s) == setTimeout(clearTimeout(s))

\* Transact.prototype._callback
_callback(s, err) == [s EXCEPT !.cb = err]

\* the record Transactions.insert stores in start()
newRecord(by, now) ==
  [user_id |-> userId(by), timestamp |-> now, hasItems |-> FALSE, items |-> NoItems,
   context |-> NoContext, undone |-> Undefined, expired |-> FALSE]

\* a start() that does not count the attempt made while a transaction is open
startUncounted(s, by) ==
  IF requireUser /\ userId(by) = NoUser
  THEN _cleanReset(s)
  ELSE LET t == _resetAutoCancel(s) IN
       IF t._transaction_id = NoTx
       THEN [t EXCEPT !._transaction_id = t.nextId,
                      !.timers = [@ EXCEPT ![Len(@)] = t.nextId],
                      !.Transactions = [i \in DOMAIN @ \cup {t.nextId} |->
                          IF i = t.nextId THEN newRecord(by, t.clock) ELSE @[i]],
                      !.nextId = @ + 1, !.clock = @ + 1, !.ret = "id"]
       ELSE [t EXCEPT !.ret = "false"]

\* Transact.prototype.start
start(s, by) ==
  IF requireUser /\ userId(by) = NoUser
  THEN _cleanReset(s)
  ELSE LET t == _resetAutoCancel(s) IN
       IF t._transaction_id = NoTx
       THEN [t EXCEPT !._transaction_id = t.nextId,
                      !.timers = [@ EXCEPT ![Len(@)] = t.nextId],
                      !.Transactions = [i \in DOMAIN @ \cup {t.nextId} |->
                          IF i = t.nextId THEN newRecord(by, t.clock) ELSE @[i]],
                      !.nextId = @ + 1, !.clock = @ + 1, !.ret = "id"]
       ELSE [t EXCEPT !._startAttempts = @ + 1, !.ret = "false"]

\* a remove that leaves the record where it is
keepRecord(txs, id) == txs

\* Transactions.remove({_id:id})
dropRecord(txs, id) == [i \in DOMAIN txs \ {id} |-> txs[i]]

(***************************************************************************)
(* Stored operations                                                        *)
(***************************************************************************)
\* Transact.prototype._packageForStorage: {k:v, ...} to [{key:k, value:v}, ...]
_packageForStorage(update) ==
  LET ks == SelectSeq(KeyOrder, LAMBDA k : k \in DOMAIN update.data)
  IN [command |-> update.command,
      data |-> [i \in 1..Len(ks) |-> [key |-> ks[i], value |-> update.data[ks[i]]]]]

\* Transact.prototype._unpackageForUpdate: [{key:k, value:v}, ...] to {k:v, ...}
_unpackageForUpdate(data) ==
  [k \in {data[i].key : i \in 1..Len(data)} |->
     LET n == CHOOSE i \in 1..Len(data) :
                  data[i].key = k /\ \A j \in 1..Len(data) : data[j].key = k => j <= i
     IN data[n].value]

\* the modifier {command: unpackaged data} that rollback, undo and redo apply
operation(stored) == <<[command |-> stored.command, data |-> _unpackageForUpdate(stored.data)]>>

\* {$unset:{deleted:1, transaction_id:t}}
unsetDeleted == <<[command |-> "$unset", data |-> [k \in MetaFields |-> 1]]>>

\* {$set:{deleted:(new Date).getTime(), transaction_id:t}}
setDeleted(t) ==
  <<[command |-> "$set", data |-> [k \in MetaFields |-> IF k = "deleted" THEN 1 ELSE t]]>>

\* Transact.prototype._pushToRecord
_pushToRecord(s, type, item) == _resetAutoCancel([s EXCEPT !._items[type] = Append(@, item)])

(***************************************************************************)
(* Rollback                                                                 *)
(***************************************************************************)
\* rollback, removed items: reinsert the stored document (a failure is logged
\* and the loop goes on), or clear the soft delete marker
RECURSIVE rollbackRemoved(_, _)
rollbackRemoved(d, removed) ==
  IF removed = <<>> THEN d
  ELSE LET obj == Head(removed)
           d2 == IF ~obj.instant THEN d
                 ELSE IF obj.hasDoc
                      THEN IF exists(d, obj._id) THEN d ELSE collInsert(d, obj._id, obj.doc)
                      ELSE collUpdate(d, obj._id, unsetDeleted)
       IN rollbackRemoved(d2, Tail(removed))

\* rollback, updated items: apply the stored inverse
RECURSIVE rollbackUpdated(_, _)
rollbackUpdated(d, updated) ==
  IF updated = <<>> THEN d
  ELSE LET obj == Head(updated)
           d2 == IF obj.instant THEN collUpdate(d, obj._id, operation(obj.inverse)) ELSE d
       IN rollbackUpdated(d2, Tail(updated))

\* rollback, inserted items: remove({_id:obj._id, transaction_id:this._transaction_id})
RECURSIVE rollbackInserted(_, _, _)
rollbackInserted(d, inserted, t) ==
  IF inserted = <<>> THEN d
  ELSE LET obj == Head(inserted)
           d2 == IF obj.instant /\ selTx(d, obj._id, t) THEN collRemove(d, obj._id) ELSE d
       IN rollbackInserted(d2, Tail(inserted), t)

\* a rollback that gives up the updated and inserted items once the insert of
\* a removed document has raised
rollbackGivingUp(s) ==
  LET raised == \E n \in 1..Len(s._items.removed) :
                  /\ s._items.removed[n].instant
                  /\ s._items.removed[n].hasDoc
                  /\ exists(s.docs, s._items.removed[n]._id)
      d1 == rollbackRemoved(s.docs, s._items.removed)
      d2 == rollbackUpdated(d1, s._items.updated)
      d3 == rollbackInserted(d2, s._items.inserted, s._transaction_id)
  IN _cleanReset([s EXCEPT !.docs = IF raised THEN d1 ELSE d3,
                           !.Transactions = dropRecord(@, s._transaction_id)])

\* Transact.prototype.rollback
rollback(s) ==
  LET d1 == rollbackRemoved(s.docs, s._items.removed)
      d2 == rollbackUpdated(d1, s._items.updated)
      d3 == rollbackInserted(d2, s._items.inserted, s._transaction_id)
  IN _cleanReset([s EXCEPT !.docs = d3,
                           !.Transactions = dropRecord(@, s._transaction_id)])

(***************************************************************************)
(* Writes: what an instant action does at once and a deferred one at commit *)
(***************************************************************************)
NoOp == [command |-> "", data |-> <<>>]

insertWrite(id, newDoc) ==
  [kind |-> "insert", _id |-> id, newDoc |-> newDoc, soft |-> FALSE,
   updates |-> <<>>, updateData |-> NoOp, inverse |-> NoOp]

removeWrite(id, soft) ==
  [kind |-> "remove", _id |-> id, newDoc |-> NoFields, soft |-> soft,
   updates |-> <<>>, updateData |-> NoOp, inverse |-> NoOp]

updateWrite(id, updates, updateData, inverse) ==
  [kind |-> "update", _id |-> id, newDoc |-> NoFields, soft |-> FALSE,
   updates |-> updates, updateData |-> updateData, inverse |-> inverse]

\* doInsert and the record of it; ok = FALSE when collection.insert raises
doInsert(s, w, instant) ==
  LET newDoc == [w.newDoc EXCEPT !["transaction_id"] = s._transaction_id] IN
  IF exists(s.docs, w._id) \/ s.raise
  THEN [ok |-> FALSE, s |-> s]
  ELSE [ok |-> TRUE,
        s |-> _pushToRecord([s EXCEPT !.docs = collInsert(@, w._id, newDoc)], "inserted",
                            [_id |-> w._id, instant |-> instant, newDoc |-> newDoc])]

\* doRemove: the item is recorded first, then the store is written
doRemove(s, w, instant) ==
  LET live == selLive(s.docs, w._id) IN
  IF w.soft
  THEN LET r == _pushToRecord(s, "removed",
                   [_id |-> w._id, instant |-> instant, hasDoc |-> FALSE, doc |-> NoFields])
       IN IF s.raise THEN [ok |-> FALSE, s |-> r]
          ELSE [ok |-> TRUE,
                s |-> IF live
                      THEN [r EXCEPT !.docs = collUpdate(@, w._id, setDeleted(s._transaction_id))]
                      ELSE r]
  ELSE LET r == _pushToRecord(s, "removed",
                   [_id |-> w._id, instant |-> instant, hasDoc |-> live,
                    doc |-> IF live THEN s.docs[w._id] ELSE NoFields])
       IN IF s.raise THEN [ok |-> FALSE, s |-> r]
          ELSE [ok |-> TRUE, s |-> IF live THEN [r EXCEPT !.docs = collRemove(@, w._id)] ELSE r]

\* updates with transaction_id added to its $set (a $set is added when it has none)
withTransactionId(updates, t) ==
  IF \E i \in 1..Len(updates) : updates[i].command = "$set"
  THEN [i \in 1..Len(updates) |->
          IF updates[i].command = "$set"
          THEN [updates[i] EXCEPT !.data = [transaction_id |-> t] @@ @]
          ELSE updates[i]]
  ELSE Append(updates, [command |-> "$set", data |-> [transaction_id |-> t]])

\* makeUpdate: the whole modifier is applied, one command of it is recorded;
\* when collection.update raises nothing is recorded
makeUpdate(s, w, instant) ==
  IF s.raise THEN [ok |-> FALSE, s |-> s]
  ELSE
  [ok |-> TRUE,
   s |-> _pushToRecord(
           [s EXCEPT !.docs = collUpdate(@, w._id, withTransactionId(w.updates, s._transaction_id))],
           "updated",
           [_id |-> w._id, instant |-> instant,
            update |-> _packageForStorage(w.updateData),
            inverse |-> _packageForStorage(w.inverse)])]

doWrite(s, w, instant) ==
  CASE w.kind = "insert" -> doInsert(s, w, instant)
    [] w.kind = "remove" -> doRemove(s, w, instant)
    [] OTHER -> makeUpdate(s, w, instant)

(***************************************************************************)
(* Commit                                                                   *)
(***************************************************************************)
\* a drain loop that takes the newest deferred write first
RECURSIVE drainNewestFirst(_, _)
drainNewestFirst(s, newIds) ==
  IF s._executionStack = <<>> THEN [ok |-> TRUE, s |-> s, newIds |-> newIds]
  ELSE LET w == s._executionStack[Len(s._executionStack)]
           r == doWrite([s EXCEPT !._executionStack = SubSeq(@, 1, Len(@) - 1)], w, FALSE)
       IN IF r.ok
          THEN drainNewestFirst([r.s EXCEPT !.drained = @ + 1],
                                IF w.kind = "insert" THEN newIds + 1 ELSE newIds)
          ELSE [ok |-> FALSE, s |-> r.s, newIds |-> newIds]

\* commit's drain loop: shift and call until the stack is empty or a call raises;
\* newIds counts the strings the calls returned
RECURSIVE drain(_, _)
drain(s, newIds) ==
  IF s._executionStack = <<>> THEN [ok |-> TRUE, s |-> s, newIds |-> newIds]
  ELSE LET w == Head(s._executionStack)
           r == doWrite([s EXCEPT !._executionStack = Tail(@)], w, FALSE)
       IN IF r.ok
          THEN drain([r.s EXCEPT !.drained = @ + 1],
                     IF w.kind = "insert" THEN newIds + 1 ELSE newIds)
          ELSE [ok |-> FALSE, s |-> r.s, newIds |-> newIds]

\* Transactions.update({_id:id}, {$set:{context:..., items:...}})
persist(txs, id, context, items) ==
  IF id \in DOMAIN txs
  THEN [txs EXCEPT ![id] = [@ EXCEPT !.context = context, !.items = items, !.hasItems = TRUE]]
  ELSE txs

\* the first argument of commit: none, the open id, another id string, null
TxidArgs == {"none", "match", "other", "null"}

\* a stray nested commit that leaves the count of start attempts as it is
strayCommitUncounted(s) == _callback(s, "multiple-transactions-open")

\* a stray nested commit that closes the transaction
strayCommitClosing(s) == _callback(_cleanReset(s), "multiple-transactions-open")

\* commit taken for the commit of a nested start(): this._startAttempts--, and
\* the callback gets multiple-transactions-open
strayCommit(s) ==
  _callback([s EXCEPT !._startAttempts = @ - 1], "multiple-transactions-open")

\* Transact.prototype.commit
commit(s, by, txid) ==
  IF requireUser /\ userId(by) = NoUser THEN s
  ELSE IF s._transaction_id = NoTx
  THEN _callback(_cleanReset(s), "no-transactions-open")
  ELSE IF txid = "other"
  THEN strayCommit(s)
  ELSE IF s._startAttempts > 0 /\ txid \notin {"match", "null"}
  THEN strayCommit(s)
  ELSE IF nothingToDo(s)
  THEN [_callback(_cleanReset([s EXCEPT !.Transactions = dropRecord(@, s._transaction_id)]), "ok")
          EXCEPT !.ret = "true"]
  ELSE IF s._rollback
  THEN _callback(rollback(s), s._rollbackReason)
  ELSE LET r == drain(s, 0) IN
       IF r.ok
       THEN [_callback(_cleanReset([r.s EXCEPT !.Transactions =
                          persist(@, s._transaction_id, r.s._context, r.s._items)]),
                       CASE r.newIds = 0 -> "ok" [] r.newIds = 1 -> "ok-id" [] OTHER -> "ok-ids")
               EXCEPT !.ret = "true"]
       ELSE _callback(rollback(r.s), "error")

(***************************************************************************)
(* Actions of the application: insert, remove, update, cancel               *)
(***************************************************************************)
\* this.makeContext as the application overwrites it (the default returns {}):
\* the context names the command
makeContext(command) == [command |-> command]

\* Transact.prototype._setContext: _.extend(this._context, context)
_setContext(s, context) == [s EXCEPT !._context = context @@ @]

\* Transact.prototype._openAutoTransaction
_openAutoTransaction(s, by) ==
  IF s._transaction_id = NoTx THEN start([s EXCEPT !._autoTransaction = TRUE], by) ELSE s

\* an auto transaction that is left open
_leaveAutoTransaction(s, by) == s

\* Transact.prototype._closeAutoTransaction: commit(opt, undefined, newId), which
\* finds no callback function to call
_closeAutoTransaction(s, by) ==
  IF s._autoTransaction THEN [commit(s, by, "none") EXCEPT !.cb = "none"] ELSE s

\* a catch that swallows the error and leaves no trace of it
caughtSilently(s, reason) == s

\* the catch of an instant write that raised: the flag, and the reason that
\* names the action
caught(s, reason) == [s EXCEPT !._rollback = TRUE, !._rollbackReason = reason]

\* the result of an instant write: the state it left, flagged when it raised
tried(r, reason) == IF r.ok THEN r.s ELSE caught(r.s, reason)

\* return !this._rollback
notRollback(s) == [s EXCEPT !.ret = IF s._rollback THEN "false" ELSE "true"]

\* a denial that leaves no trace
deniedSilently(s) == [s EXCEPT !.ret = "undefined"]

\* the else branch of the permission check
denied(s) == [s EXCEPT !._rollback = TRUE, !._rollbackReason = "permission-denied",
                       !.ret = "undefined"]

\* Transact.prototype.insert
insert(s, by, id, newDoc, instant, permitted) ==
  IF s._rollback \/ (requireUser /\ userId(by) = NoUser) THEN s
  ELSE IF ~permitted THEN denied(s)
  ELSE LET o == _setContext(_openAutoTransaction(s, by), makeContext("insert"))
           w == insertWrite(id, newDoc)
           r == doInsert(o, w, TRUE)
       IN IF (instant \/ o._autoTransaction) /\ r.ok
          THEN [_closeAutoTransaction(r.s, by) EXCEPT !.ret = "id"]
          ELSE LET e == IF instant \/ o._autoTransaction
                        THEN caught(o, "insert-error")
                        ELSE o
               IN notRollback(_closeAutoTransaction(
                      [e EXCEPT !._executionStack = Append(@, w)], by))

\* Transact.prototype.remove
remove(s, by, id, soft, instant, permitted) ==
  IF s._rollback \/ (requireUser /\ userId(by) = NoUser) THEN s
  ELSE IF ~permitted THEN denied(s)
  ELSE LET o == _setContext(_openAutoTransaction(s, by), makeContext("remove"))
           w == removeWrite(id, soft)
       IN notRollback(_closeAutoTransaction(
              IF instant THEN tried(doRemove(o, w, TRUE), "remove-error")
              ELSE [o EXCEPT !._executionStack = Append(@, w)], by))

\* this._inverseOps
_inverseOps(command) ==
  CASE command = "$set" -> "$set"
    [] command = "$addToSet" -> "$pull"
    [] command = "$unset" -> "$set"
    [] command = "$pull" -> "$addToSet"
    [] command = "$inc" -> "$set"
    [] command = "$push" -> "$set"

\* Transact.prototype._drillDown, for a key without dots
_drillDown(obj, key) == obj[key]

\* collection.findOne({_id:id}); no document reads as no field at all
findOne(d, id) == IF exists(d, id) THEN d[id] ELSE NoFields

\* update's synthesis of the inverse of one command of the modifier
inverseOf(existingDoc, command, updateMap) ==
  IF _inverseOps(command) \in {"$pull", "$addToSet"}
  THEN [command |-> _inverseOps(command), data |-> updateMap]
  ELSE [command |-> IF \E k \in DOMAIN updateMap : _drillDown(existingDoc, k) = Undefined
                    THEN "$unset" ELSE _inverseOps(command),
        data |-> [k \in DOMAIN updateMap |->
                    IF _drillDown(existingDoc, k) = Undefined THEN Blank
                    ELSE _drillDown(existingDoc, k)]]

\* a loop that stops after the first command of the modifier
updateLoopOnce(s, id, existingDoc, updates, i, instant) ==
  IF i > 1 \/ i > Len(updates) THEN s
  ELSE LET c == _setContext(s, makeContext("update"))
           w == updateWrite(id, updates, updates[i],
                            inverseOf(existingDoc, updates[i].command, updates[i].data))
       IN IF instant THEN tried(makeUpdate(c, w, TRUE), "update-error")
          ELSE [c EXCEPT !._executionStack = Append(@, w)]

\* update's loop over the commands of the modifier, from command i on
RECURSIVE updateLoop(_, _, _, _, _, _)
updateLoop(s, id, existingDoc, updates, i, instant) ==
  IF i > Len(updates) THEN s
  ELSE LET c == _setContext(s, makeContext("update"))
           w == updateWrite(id, updates, updates[i],
                            inverseOf(existingDoc, updates[i].command, updates[i].data))
           n == IF instant THEN tried(makeUpdate(c, w, TRUE), "update-error")
                ELSE [c EXCEPT !._executionStack = Append(@, w)]
       IN updateLoop(n, id, existingDoc, updates, i + 1, instant)

\* an update that does not look at the rollback flag
updateRegardless(s, by, id, updates, instant, permitted) ==
  IF requireUser /\ userId(by) = NoUser THEN s
  ELSE IF ~permitted THEN denied(s)
  ELSE notRollback(_closeAutoTransaction(
           updateLoop(_openAutoTransaction(s, by), id, findOne(s.docs, id), updates, 1,
                      instant), by))

\* Transact.prototype.update
update(s, by, id, updates, instant, permitted) ==
  IF s._rollback \/ (requireUser /\ userId(by) = NoUser) THEN s
  ELSE IF ~permitted THEN denied(s)
  ELSE notRollback(_closeAutoTransaction(
           updateLoop(_openAutoTransaction(s, by), id, findOne(s.docs, id), updates, 1,
                      instant), by))

\* Transact.prototype.cancel
cancel(s) == [s EXCEPT !._rollback = TRUE, !._rollbackReason = "transaction-cancelled"]

(***************************************************************************)
(* Undo and redo (the methods _meteorTransactionsUndo / Redo)               *)
(***************************************************************************)
\* undo's choice of lastTransaction: find({_id:id}), or the user's latest
\* transaction (sort timestamp -1, limit 1) neither undone nor expired
lastTransaction(txs, by, id) ==
  LET cands == {i \in DOMAIN txs : /\ txs[i].user_id = userId(by)
                                   /\ txs[i].undone = Undefined
                                   /\ ~txs[i].expired}
  IN IF id # NoTx THEN (IF id \in DOMAIN txs THEN id ELSE NoTx)
     ELSE IF cands = {} THEN NoTx
     ELSE CHOOSE i \in cands : \A j \in cands : txs[j].timestamp <= txs[i].timestamp

\* redo's choice of lastUndo: find({_id:id}), or the user's latest undone
\* transaction (sort undone -1, limit 1) that is not expired
lastUndo(txs, by, id) ==
  LET cands == {i \in DOMAIN txs : /\ txs[i].user_id = userId(by)
                                   /\ txs[i].undone # Undefined
                                   /\ ~txs[i].expired}
  IN IF id # NoTx THEN (IF id \in DOMAIN txs THEN id ELSE NoTx)
     ELSE IF cands = {} THEN NoTx
     ELSE CHOOSE i \in cands : \A j \in cands : txs[j].undone <= txs[i].undone

\* undo, removed items: a stored document whose _id is in the store again
undoRemovedExpired(d, removed) ==
  \E i \in 1..Len(removed) : removed[i].hasDoc /\ exists(d, removed[i]._id)

\* undo, inserted items: the document carries another transaction's id
undoInsertedExpired(d, inserted, t) ==
  \E i \in 1..Len(inserted) :
     /\ exists(d, inserted[i]._id)
     /\ d[inserted[i]._id]["transaction_id"] \notin {Undefined, t}

\* undo's queue, removed items; ok = FALSE when a queued insert raises
RECURSIVE undoRemoved(_, _)
undoRemoved(d, removed) ==
  IF removed = <<>> THEN [ok |-> TRUE, d |-> d]
  ELSE LET obj == Head(removed) IN
       IF obj.hasDoc
       THEN IF exists(d, obj._id) THEN [ok |-> FALSE, d |-> d]
            ELSE undoRemoved(collInsert(d, obj._id, obj.doc), Tail(removed))
       ELSE undoRemoved(collUpdate(d, obj._id, unsetDeleted), Tail(removed))

\* undo's queue, updated items
RECURSIVE undoUpdated(_, _)
undoUpdated(d, updated) ==
  IF updated = <<>> THEN d
  ELSE undoUpdated(collUpdate(d, Head(updated)._id, operation(Head(updated).inverse)),
                   Tail(updated))

\* undo's queue, inserted items: remove({_id:obj._id, transaction_id:lastTransaction._id})
RECURSIVE undoInserted(_, _, _)
undoInserted(d, inserted, t) ==
  IF inserted = <<>> THEN d
  ELSE undoInserted(IF selTx(d, Head(inserted)._id, t) THEN collRemove(d, Head(inserted)._id)
                    ELSE d, Tail(inserted), t)

\* an undo that runs its queued updates and removes as it builds them, before
\* it knows whether the transaction has expired
undoEager(s, by, id) ==
  LET t == lastTransaction(s.Transactions, by, id) IN
  IF requireUser /\ userId(by) = NoUser THEN s
  ELSE IF t = NoTx THEN [s EXCEPT !.ret = "false"]
  ELSE IF ~s.Transactions[t].hasItems
  THEN [s EXCEPT !.Transactions = dropRecord(@, t), !.ret = "false"]
  ELSE LET items == s.Transactions[t].items
           expiredInserted == undoInsertedExpired(s.docs, items.inserted, t)
           expired == undoRemovedExpired(s.docs, items.removed) \/ expiredInserted
           d == undoInserted(undoUpdated(s.docs, items.updated), items.inserted, t)
       IN IF expired
          THEN [s EXCEPT !.docs = d, !.Transactions[t].expired = @ \/ expiredInserted,
                         !.ret = "true"]
          ELSE [s EXCEPT !.docs = undoRemoved(d, items.removed).d,
                         !.Transactions[t].undone = s.clock,
                         !.clock = @ + 1, !.ret = "false"]

\* _meteorTransactionsUndo; ret is the method's result: "true" is expired
undo(s, by, id) ==
  LET t == lastTransaction(s.Transactions, by, id) IN
  IF requireUser /\ userId(by) = NoUser THEN s
  ELSE IF t = NoTx THEN [s EXCEPT !.ret = "false"]
  ELSE IF ~s.Transactions[t].hasItems
  THEN [s EXCEPT !.Transactions = dropRecord(@, t), !.ret = "false"]
  ELSE LET items == s.Transactions[t].items
           expiredInserted == undoInsertedExpired(s.docs, items.inserted, t)
           expired == undoRemovedExpired(s.docs, items.removed) \/ expiredInserted
           r == undoRemoved(s.docs, items.removed)
       IN IF expired
          THEN [s EXCEPT !.Transactions[t].expired = @ \/ expiredInserted, !.ret = "true"]
          ELSE IF ~r.ok THEN [s EXCEPT !.docs = r.d, !.ret = "raised"]
          ELSE [s EXCEPT !.docs = undoInserted(undoUpdated(r.d, items.updated),
                                               items.inserted, t),
                         !.Transactions[t].undone = s.clock,
                         !.clock = @ + 1, !.ret = "false"]

\* redo, inserted items: a document with that _id is in the store
redoInsertedExpired(d, inserted) ==
  \E i \in 1..Len(inserted) : exists(d, inserted[i]._id)

\* redo's queue, removed items
RECURSIVE redoRemoved(_, _, _)
redoRemoved(d, removed, t) ==
  IF removed = <<>> THEN d
  ELSE LET obj == Head(removed) IN
       redoRemoved(IF obj.hasDoc THEN collRemove(d, obj._id)
                   ELSE collUpdate(d, obj._id, setDeleted(t)), Tail(removed), t)

\* redo's queue, updated items
RECURSIVE redoUpdated(_, _)
redoUpdated(d, updated) ==
  IF updated = <<>> THEN d
  ELSE redoUpdated(collUpdate(d, Head(updated)._id, operation(Head(updated).update)),
                   Tail(updated))

\* redo's queue, inserted items; ok = FALSE when a queued insert raises
RECURSIVE redoInserted(_, _, _)
redoInserted(d, inserted, t) ==
  IF inserted = <<>> THEN [ok |-> TRUE, d |-> d]
  ELSE LET obj == Head(inserted) IN
       IF exists(d, obj._id) THEN [ok |-> FALSE, d |-> d]
       ELSE redoInserted(collInsert(d, obj._id, [obj.newDoc EXCEPT !["transaction_id"] = t]),
                         Tail(inserted), t)

\* _meteorTransactionsRedo; ret is the method's result: "true" is expired
redo(s, by, id) ==
  LET t == lastUndo(s.Transactions, by, id) IN
  IF requireUser /\ userId(by) = NoUser THEN s
  ELSE IF t = NoTx \/ ~s.Transactions[t].hasItems THEN [s EXCEPT !.ret = "false"]
  ELSE LET items == s.Transactions[t].items
           r == redoInserted(redoUpdated(redoRemoved(s.docs, items.removed, t), items.updated),
                             items.inserted, t)
       IN IF redoInsertedExpired(s.docs, items.inserted)
          THEN [s EXCEPT !.Transactions[t].expired = TRUE, !.ret = "true"]
          ELSE IF ~r.ok THEN [s EXCEPT !.docs = r.d, !.ret = "raised"]
          ELSE [s EXCEPT !.docs = r.d, !.Transactions[t].undone = Undefined, !.ret = "false"]

(***************************************************************************)
(* The state machine                                                        *)
(***************************************************************************)
\* modifiers the application passes to update
Modifiers ==
  { <<[command |-> "$set", data |-> [a |-> 2]]>>,
    <<[command |-> "$inc", data |-> [a |-> 1]]>> }

\* the store before the first call: one document, d1
\* a modifier of two commands
TwoCommands ==
  {<<[command |-> "$inc", data |-> [a |-> 1]], [command |-> "$set", data |-> [b |-> 2]]>>}

InitDocs == [i \in {"d1"} |-> [NoFields EXCEPT !["a"] = 1]]

\* the record of a call: op, the caller, the transaction undo or redo chose (tx),
\* commit's first argument (arg), what became of a write (effect: rejected at
\* the first test, denied, instant, deferred), the _id an accepted write names,
\* the length of the execution stack the call found (queued), and the results
NoCall ==
  [op |-> "", by |-> "", tx |-> NoTx, arg |-> "", effect |-> "", id |-> "",
   queued |-> 0, ret |-> "undefined", cb |-> "none", drained |-> 0]

\* history of the latest transaction a start() or a lone write opened: its id
\* (tx), the store when it was opened (pre), the store when commit stored its
\* ledger (post), and how far it has come (stage): open; stored, and nothing
\* has written to the store since; undone, by an undo that did not expire;
\* redone after that; stale once anything else has written to the store
NoSnap == [tx |-> NoTx, pre |-> <<>>, post |-> <<>>, stage |-> "stale"]

\* the transaction a call has open: the one it opened, or the one it found
openIn(s) == IF s.nextId # nextId THEN nextId ELSE _transaction_id

\* the call closed that transaction and left its ledger on record
stores(s) ==
  /\ openIn(s) # NoTx
  /\ s._transaction_id = NoTx
  /\ openIn(s) \in DOMAIN s.Transactions
  /\ s.Transactions[openIn(s)].hasItems

track(s, call) ==
  LET base == IF s.nextId # nextId
              THEN [tx |-> nextId, pre |-> docs, post |-> <<>>, stage |-> "open"]
              ELSE snap
      stale == [snap EXCEPT !.stage = "stale"]
  IN CASE call.op = "undo" ->
            IF call.tx = snap.tx /\ snap.stage \in {"stored", "redone"} /\ s.ret = "false"
            THEN [snap EXCEPT !.stage = "undone"]
            ELSE IF call.tx = snap.tx \/ s.docs # docs THEN stale ELSE snap
       [] call.op = "redo" ->
            IF call.tx = snap.tx /\ snap.stage = "undone" /\ s.ret = "false"
            THEN [snap EXCEPT !.stage = "redone"]
            ELSE IF call.tx = snap.tx \/ s.docs # docs THEN stale ELSE snap
       [] call.op = "direct" -> stale
       [] OTHER ->
            IF openIn(s) # NoTx
            THEN IF stores(s) /\ base.stage = "open"
                 THEN [base EXCEPT !.post = s.docs, !.stage = "stored"]
                 ELSE base
            ELSE IF s.docs # docs THEN stale ELSE snap

Init ==
  /\ _transaction_id = NoTx
  /\ _autoTransaction = FALSE
  /\ _executionStack = <<>>
  /\ _items = NoItems
  /\ _startAttempts = 0
  /\ _rollback = FALSE
  /\ _rollbackReason = ""
  /\ _context = NoContext
  /\ _autoCancel = FALSE
  /\ timers = <<>>
  /\ docs = InitDocs
  /\ Transactions = <<>>
  /\ nextId = 1
  /\ clock = 1
  /\ last = NoCall
  /\ snap = NoSnap

\* the state after a call, and the record of the call
Becomes(after, call) ==
  \E s \in {after} :
    /\ _transaction_id' = s._transaction_id
    /\ _autoTransaction' = s._autoTransaction
    /\ _executionStack' = s._executionStack
    /\ _items' = s._items
    /\ _startAttempts' = s._startAttempts
    /\ _rollback' = s._rollback
    /\ _rollbackReason' = s._rollbackReason
    /\ _context' = s._context
    /\ _autoCancel' = s._autoCancel
    /\ timers' = s.timers
    /\ docs' = s.docs
    /\ Transactions' = s.Transactions
    /\ nextId' = s.nextId
    /\ clock' = s.clock
    /\ last' = [call EXCEPT !.ret = s.ret, !.cb = s.cb, !.drained = s.drained,
                            !.queued = Len(_executionStack)]
    /\ snap' = track(s, call)

\* a call that may open a transaction finds an id and a timestamp left
CanOpen == _transaction_id # NoTx \/ (nextId <= MaxTx /\ clock <= MaxClock)

\* the number of items of a ledger
size(items) == Len(items.inserted) + Len(items.updated) + Len(items.removed)

\* the writes on record in the transactions with ids 1..n
RECURSIVE stored(_)
stored(n) ==
  IF n = 0 THEN 0
  ELSE stored(n - 1) + (IF n \in DOMAIN Transactions THEN size(Transactions[n].items) ELSE 0)

\* room for n more writes under the bound max
Room(max, n) == Len(_executionStack) + size(_items) + stored(MaxTx + 1) + n <= max

\* what became of a write: see NoCall
effect(by, instant, permitted) ==
  IF _rollback \/ (requireUser /\ userId(by) = NoUser) THEN "rejected"
  ELSE IF ~permitted THEN "denied"
  ELSE IF instant THEN "instant" ELSE "deferred"

\* the record of a write
written(op, by, id, instant, permitted) ==
  [NoCall EXCEPT !.op = op, !.by = by, !.effect = effect(by, instant, permitted),
                 !.id = IF effect(by, instant, permitted) \in {"instant", "deferred"}
                        THEN id ELSE ""]

Start(by) ==
  /\ CanOpen
  /\ _startAttempts < MaxAttempts
  /\ Becomes(start(Cur, by), [NoCall EXCEPT !.op = "start", !.by = by])

Commit(by, txid) ==
  /\ txid = "other" => _startAttempts > -MaxAttempts
  /\ Becomes(commit(Cur, by, txid), [NoCall EXCEPT !.op = "commit", !.by = by, !.arg = txid])

Rollback(by) ==
  Becomes(rollback(Cur), [NoCall EXCEPT !.op = "rollback", !.by = by])

Cancel(by) ==
  Becomes(cancel(Cur), [NoCall EXCEPT !.op = "cancel", !.by = by])

Insert(by, id, newDoc, instant, permitted) ==
  /\ CanOpen
  /\ Becomes(insert(Cur, by, id, newDoc, instant, permitted),
             written("insert", by, id, instant, permitted))

Remove(by, id, instant, permitted) ==
  /\ CanOpen
  /\ Becomes(remove(Cur, by, id, softDelete, instant, permitted),
             written("remove", by, id, instant, permitted))

Update(by, id, updates, instant, permitted) ==
  /\ CanOpen
  /\ Becomes(update(Cur, by, id, updates, instant, permitted),
             written("update", by, id, instant, permitted))

Undo(by, id) ==
  /\ clock <= MaxClock
  /\ Becomes(undo(Cur, by, id),
             [NoCall EXCEPT !.op = "undo", !.by = by,
                            !.tx = lastTransaction(Transactions, by, id)])

Redo(by, id) ==
  /\ Becomes(redo(Cur, by, id),
             [NoCall EXCEPT !.op = "redo", !.by = by, !.tx = lastUndo(Transactions, by, id)])

\* an instant insert, remove, update of a logged-in caller on which the store
\* raises
InsertRaises(by, id, newDoc) ==
  /\ CanOpen
  /\ Becomes(insert([Cur EXCEPT !.raise = TRUE], by, id, newDoc, TRUE, TRUE),
             [written("insert", by, id, TRUE, TRUE) EXCEPT !.arg = "raise"])

RemoveRaises(by, id) ==
  /\ CanOpen
  /\ Becomes(remove([Cur EXCEPT !.raise = TRUE], by, id, softDelete, TRUE, TRUE),
             [written("remove", by, id, TRUE, TRUE) EXCEPT !.arg = "raise"])

UpdateRaises(by, id, updates) ==
  /\ CanOpen
  /\ Becomes(update([Cur EXCEPT !.raise = TRUE], by, id, updates, TRUE, TRUE),
             [written("update", by, id, TRUE, TRUE) EXCEPT !.arg = "raise"])

\* collection.insert(doc) without the tx option: the wrapper of insert passes
\* the call on to the collection; a duplicate _id raises and changes nothing
DirectInsert(id, newDoc) ==
  /\ ~exists(docs, id)
  /\ Becomes([Cur EXCEPT !.docs = collInsert(@, id, newDoc)], [NoCall EXCEPT !.op = "direct"])

\* pending timeout i fires, the function _resetAutoCancel gave it runs:
\* self.rollback()
fire(s, i) ==
  rollback([s EXCEPT !.timers = SubSeq(@, 1, i - 1) \o SubSeq(@, i + 1, Len(@)),
                     !._autoCancel = @ /\ i # Len(s.timers)])

\* the idle timeout set by _resetAutoCancel fires
Timeout ==
  \E i \in 1..Len(timers) :
    Becomes(fire(Cur, i), [NoCall EXCEPT !.op = "timeout", !.tx = timers[i]])

(***************************************************************************)
(* The lifecycle: every call of the API by one user and by a caller who is  *)
(* not logged in, and the idle timeout                                      *)
(***************************************************************************)
Callers == {"s1", "anon"}
Anon == {"anon"}

Next ==
  \/ \E by \in Callers : Start(by)
  \/ \E by \in One, txid \in TxidArgs : Commit(by, txid)
  \/ \E by \in Anon, txid \in {"none", "other", "match"} : Commit(by, txid)
  \/ \E by \in One : Rollback(by)
  \/ \E by \in One : Cancel(by)
  \/ \E by \in One, id \in DocIds, newDoc \in NewDocs,
        instant \in BOOLEAN, permitted \in BOOLEAN :
        Room(MaxWrites, 1) /\ Insert(by, id, newDoc, instant, permitted)
  \/ \E by \in One, id \in DocIds, instant \in BOOLEAN, permitted \in BOOLEAN :
        Room(MaxWrites, 1) /\ Remove(by, id, instant, permitted)
  \/ \E by \in One, id \in DocIds, updates \in Modifiers,
        instant \in BOOLEAN, permitted \in BOOLEAN :
        Room(MaxWrites, Len(updates)) /\ Update(by, id, updates, instant, permitted)
  \/ \E by \in One, updates \in TwoCommands :
        Room(MaxWrites, Len(updates)) /\ Update(by, "d1", updates, FALSE, TRUE)
  \/ \E by \in Anon, id \in DocIds, newDoc \in NewDocs : Insert(by, id, newDoc, TRUE, TRUE)
  \/ Timeout

Spec == Init /\ [][Next]_vars

\* the lifecycle on the server, where the timeout that _resetAutoCancel sets
\* fires once idleTimeout has passed: a pending timeout is not put off for ever
SpecTimer == Init /\ [][Next]_vars /\ WF_vars(Timeout)

(***************************************************************************)
(* Undo and redo: one user's transactions of permitted writes, committed,   *)
(* undone and redone                                                        *)
(***************************************************************************)
NextUndo ==
  \/ \E by \in One : _transaction_id = NoTx /\ Start(by)
  \/ \E by \in One : Commit(by, "none")
  \/ \E by \in One, id \in DocIds, newDoc \in NewDocs, instant \in BOOLEAN :
        Room(MaxWrites, 1) /\ Insert(by, id, newDoc, instant, TRUE)
  \/ \E by \in One, id \in DocIds, instant \in BOOLEAN :
        Room(MaxWrites, 1) /\ Remove(by, id, instant, TRUE)
  \/ \E by \in One, id \in DocIds, updates \in Modifiers, instant \in BOOLEAN :
        Room(MaxWrites, Len(updates)) /\ Update(by, id, updates, instant, TRUE)
  \/ \E by \in One, id \in 0..MaxTx : Undo(by, id)
  \/ \E by \in One, id \in {NoTx} : Redo(by, id)
  \/ \E id \in DocIds, newDoc \in NewDocs : DirectInsert(id, newDoc)

SpecUndo == Init /\ [][NextUndo]_vars

(***************************************************************************)
(* Two sessions: the method calls of two users on the one server reach the  *)
(* one tx object in any order                                               *)
(***************************************************************************)
Two == {"s1", "s2"}

NextSessions ==
  \/ \E by \in Two : Start(by)
  \/ \E by \in Two : Commit(by, "none")
  \/ \E by \in Two : Rollback(by)
  \/ \E by \in Two : Cancel(by)
  \/ \E by \in Two, id \in DocIds, newDoc \in NewDocs, instant \in BOOLEAN :
        Room(MaxWrites, 1) /\ Insert(by, id, newDoc, instant, TRUE)
  \/ \E by \in Two, id \in DocIds, instant \in BOOLEAN :
        Room(MaxWrites, 1) /\ Remove(by, id, instant, TRUE)
  \/ \E by \in Two, id \in DocIds, updates \in Modifiers, instant \in BOOLEAN :
        Room(MaxWrites, Len(updates)) /\ Update(by, id, updates, instant, TRUE)

SpecSessions == Init /\ [][NextSessions]_vars

(***************************************************************************)
(* A store that raises: one user's explicit transactions, with instant       *)
(* writes on which the store may raise                                      *)
(***************************************************************************)
NextRaise ==
  \/ \E by \in One : _transaction_id = NoTx /\ Start(by)
  \/ \E by \in One : Commit(by, "none")
  \/ \E by \in One, id \in DocIds, newDoc \in NewDocs, instant \in BOOLEAN :
        _transaction_id # NoTx /\ Room(MaxWrites, 1) /\ Insert(by, id, newDoc, instant, TRUE)
  \/ \E by \in One, id \in DocIds, instant \in BOOLEAN :
        _transaction_id # NoTx /\ Room(MaxWrites, 1) /\ Remove(by, id, instant, TRUE)
  \/ \E by \in One, id \in DocIds, updates \in Modifiers, instant \in BOOLEAN :
        /\ _transaction_id # NoTx
        /\ Room(MaxWrites, Len(updates))
        /\ Update(by, id, updates, instant, TRUE)
  \/ \E by \in One, id \in DocIds, newDoc \in NewDocs :
        _transaction_id # NoTx /\ Room(MaxWrites, 1) /\ InsertRaises(by, id, newDoc)
  \/ \E by \in One, id \in DocIds :
        _transaction_id # NoTx /\ Room(MaxWrites, 1) /\ RemoveRaises(by, id)
  \/ \E by \in One, id \in DocIds, updates \in Modifiers :
        /\ _transaction_id # NoTx
        /\ Room(MaxWrites, Len(updates))
        /\ UpdateRaises(by, id, updates)

SpecRaise == Init /\ [][NextRaise]_vars

(***************************************************************************)
(* undo() without an id: two users' transactions of permitted writes, and   *)
(* each user's undo of the latest                                           *)
(***************************************************************************)
NextLatest ==
  \/ \E by \in Two : _transaction_id = NoTx /\ Start(by)
  \/ \E by \in Two : Commit(by, "none")
  \/ \E by \in Two, id \in DocIds, newDoc \in NewDocs, instant \in BOOLEAN :
        Room(MaxWrites, 1) /\ Insert(by, id, newDoc, instant, TRUE)
  \/ \E by \in Two, id \in DocIds, updates \in Modifiers, instant \in BOOLEAN :
        Room(MaxWrites, Len(updates)) /\ Update(by, id, updates, instant, TRUE)
  \/ \E by \in Two : Undo(by, NoTx)

SpecLatest == Init /\ [][NextLatest]_vars

(***************************************************************************)
(* The inverse of an update: one user's instant updates of one document,    *)
(* taken back by rollback(), from every prior document of a small set       *)
(***************************************************************************)
\* the prior documents: a and b there or not, t an array of up to two elements
InverseDocs ==
  {[i \in {"d1"} |-> [NoFields EXCEPT !["a"] = a, !["b"] = b, !["t"] = arr]] :
     a \in {Undefined, 1}, b \in {Undefined, 1}, arr \in SUBSET {1, 2}}

\* the modifiers: one command on one field or on two, and an increment
\* together with a set
InverseModifiers ==
  {<<[command |-> c, data |-> [a |-> 2]]>> : c \in {"$set", "$unset", "$inc"}}
  \cup {<<[command |-> c, data |-> [a |-> 2, b |-> 2]]>> : c \in {"$set", "$inc"}}
  \cup {<<[command |-> c, data |-> [t |-> 1]]>> : c \in {"$addToSet", "$pull"}}
  \cup {<<[command |-> "$inc", data |-> [a |-> 1]], [command |-> "$set", data |-> [b |-> 2]]>>}

InitInverse ==
  /\ _transaction_id = NoTx
  /\ _autoTransaction = FALSE
  /\ _executionStack = <<>>
  /\ _items = NoItems
  /\ _startAttempts = 0
  /\ _rollback = FALSE
  /\ _rollbackReason = ""
  /\ _context = NoContext
  /\ _autoCancel = FALSE
  /\ timers = <<>>
  /\ docs \in InverseDocs
  /\ Transactions = <<>>
  /\ nextId = 1
  /\ clock = 1
  /\ last = NoCall
  /\ snap = NoSnap

NextInverse ==
  \/ \E by \in One : _transaction_id = NoTx /\ Start(by)
  \/ \E by \in One, updates \in InverseModifiers :
        /\ _transaction_id # NoTx
        /\ Room(MaxWrites, Len(updates))
        /\ Update(by, "d1", updates, TRUE, TRUE)
  \/ \E by \in One : Rollback(by)

SpecInverse == InitInverse /\ [][NextInverse]_vars

(***************************************************************************)
(* Properties of the lifecycle (specification Spec)                         *)
(***************************************************************************)
\* the in-flight state _cleanReset leaves: no transaction id, not auto-opened,
\* empty ledger and execution stack
Idle ==
  /\ _transaction_id = NoTx
  /\ ~_autoTransaction
  /\ _items = NoItems
  /\ _executionStack = <<>>

\* a commit by a logged-in caller that is past the test for a stray nested
\* commit: no nested start() is outstanding and no other id is named
Reaches(call) ==
  /\ call.op = "commit"
  /\ userId(call.by) # NoUser
  /\ call.arg # "other"
  /\ (_startAttempts > 0 => call.arg \in {"match", "null"})

\* C3: whenever commit reaches an open transaction whose rollback flag is set,
\* the callback receives an error whose code is the recorded rollback reason,
\* never a success value; so too after start(), one denied action, commit()
C3_RollbackReasonReported ==
  [][(Reaches(last') /\ _transaction_id # NoTx /\ _rollback)
       => last'.cb = _rollbackReason]_vars

\* C4 as stated: after commit returns for an open transaction whose ledger and
\* execution stack are both empty, no record has that transaction's id and the
\* in-flight state is Idle
C4_EmptyCommitDiscards ==
  [][(last'.op = "commit" /\ _transaction_id # NoTx /\ nothingToDo(Cur))
       => (_transaction_id \notin DOMAIN Transactions' /\ Idle')]_vars

\* C4 amended: the same, for a commit by a logged-in caller that is not a
\* stray nested commit
C4_EmptyCommitDiscardsWhenReached ==
  [][(Reaches(last') /\ _transaction_id # NoTx /\ nothingToDo(Cur))
       => (_transaction_id \notin DOMAIN Transactions' /\ Idle')]_vars

\* C4 witness: a commit discarded an open, empty transaction
C4_Witness ==
  /\ last.op = "commit"
  /\ last.cb = "ok"
  /\ last.queued = 0
  /\ last.drained = 0
  /\ snap.stage = "open"
  /\ snap.tx \notin DOMAIN Transactions
  /\ Idle

\* C5: while the rollback flag is set no call applies a deferred write, and
\* the flag is cleared only together with the execution stack, so none of the
\* writes queued when commit finds the flag set is applied by that commit or
\* afterwards
C5_FlaggedStackNeverDrained ==
  [][_rollback => (last'.drained = 0 /\ (~_rollback' => _executionStack' = <<>>))]_vars

\* C5 witness: commit found the flag set and deferred writes queued, and
\* reported the reason
C5_Witness ==
  /\ last.op = "commit"
  /\ last.queued > 0
  /\ last.cb \in {"permission-denied", "transaction-cancelled"}
  /\ last.drained = 0
  /\ _executionStack = <<>>

\* the application fields and the documents of two stores are the same
same(d, e) ==
  /\ DOMAIN d = DOMAIN e
  /\ \A i \in DOMAIN d : \A k \in Fields : d[i][k] = e[i][k]

\* C8: if a deferred write throws while commit drains the execution stack then,
\* when commit returns, every write the transaction had applied (instant, or
\* drained before the failure) is reversed, the record is deleted, the state is
\* Idle and the callback received an error
C8_FailedDrainReversed ==
  [][(last'.op = "commit" /\ last'.cb = "error" /\ snap.tx = _transaction_id)
       => (same(docs', snap.pre) /\ _transaction_id \notin DOMAIN Transactions' /\ Idle')]_vars

\* a permitted write by a logged-in caller that finds no transaction open and
\* the rollback flag clear
LoneWrite(call) ==
  /\ call.op \in {"insert", "remove", "update"}
  /\ call.effect \in {"instant", "deferred"}
  /\ _transaction_id = NoTx
  /\ ~_rollback

\* the document after the k calls of makeUpdate an update of k commands
\* makes: each applies the whole modifier
RECURSIVE perCommand(_, _, _)
perCommand(doc, updates, k) ==
  IF k = 0 THEN doc ELSE perCommand(applyModifier(doc, updates), updates, k - 1)

\* what a lone write leaves: the store written, one new record (its id is
\* nextId) whose ledger holds the items of the call, the in-flight state Idle
LoneWriteDone(call) ==
  /\ DOMAIN Transactions' = DOMAIN Transactions \cup {nextId}
  /\ nextId \notin DOMAIN Transactions
  /\ \A i \in DOMAIN Transactions : Transactions'[i] = Transactions[i]
  /\ Transactions'[nextId].hasItems
  /\ LET items == Transactions'[nextId].items IN
       CASE call.op = "insert" ->
              /\ items.updated = <<>> /\ items.removed = <<>>
              /\ Len(items.inserted) = 1
              /\ items.inserted[1].instant
              /\ items.inserted[1]._id = call.id
              /\ call.id \in DOMAIN docs'
              /\ \A k \in Fields : docs'[call.id][k] = items.inserted[1].newDoc[k]
         [] call.op = "remove" ->
              /\ items.updated = <<>> /\ items.inserted = <<>>
              /\ Len(items.removed) = 1
              /\ items.removed[1]._id = call.id
              /\ call.id \notin DOMAIN docs'
         [] OTHER ->
              /\ items.inserted = <<>> /\ items.removed = <<>>
              /\ Len(items.updated) >= 1
              /\ \A n \in 1..Len(items.updated) : items.updated[n]._id = call.id
              /\ call.id \in DOMAIN docs =>
                   docs'[call.id] = perCommand(docs[call.id],
                      [n \in 1..Len(items.updated) |-> Head(operation(items.updated[n].update))]
                      \o <<[command |-> "$set", data |-> [transaction_id |-> nextId]]>>,
                      Len(items.updated))
  /\ Idle'

C1_UndoRestores ==
  [][(last'.op = "undo" /\ snap.stage = "stored" /\ last'.tx = snap.tx)
       => same(docs', snap.pre)]_vars

\* C2: after an undo that did not expire and a redo, with no write in between,
\* the store is the one the commit left and the record has no undone marker
C2_RedoRestores ==
  [][(last'.op = "redo" /\ snap.stage = "undone" /\ last'.tx = snap.tx)
       => /\ same(docs', snap.post)
          /\ snap.tx \in DOMAIN Transactions'
          /\ Transactions'[snap.tx].undone = Undefined]_vars

\* the step is undo of the stored transaction t
UndoOf(t) ==
  /\ last'.op = "undo"
  /\ last'.tx = t
  /\ t \in DOMAIN Transactions
  /\ Transactions[t].hasItems

\* document d carries the id of a transaction other than t
Claimed(d, t) == exists(docs, d) /\ docs[d]["transaction_id"] \notin {Undefined, t}

\* C6: undo of a transaction T with an inserted item for document d:
\* if d carries T's id, d is deleted and T is stamped undone; if d carries
\* another transaction's id, T is marked expired, undo returns true and no
\* document is changed
C6_UndoInserted ==
  [][\A t \in DOMAIN Transactions :
       \A i \in 1..Len(Transactions[t].items.inserted) :
          LET d == Transactions[t].items.inserted[i]._id IN
          UndoOf(t) =>
            /\ selTx(docs, d, t) =>
                 (d \notin DOMAIN docs' /\ Transactions'[t].undone # Undefined)
            /\ Claimed(d, t) =>
                 (Transactions'[t].expired /\ last'.ret = "true" /\ docs' = docs)]_vars

\* C7: whenever undo or redo returns expired = true, no document differs from
\* what it was before the call and no transaction's undone marker has changed
C7_ExpiredChangesNothing ==
  [][(last'.op \in {"undo", "redo"} /\ last'.ret = "true")
       => /\ docs' = docs
          /\ \A t \in DOMAIN Transactions :
               t \in DOMAIN Transactions' /\ Transactions'[t].undone = Transactions[t].undone]_vars

\* C7 witness: an undo of a transaction of several items returned expired
C7_Witness ==
  /\ last.op = "undo"
  /\ last.ret = "true"
  /\ last.tx \in DOMAIN Transactions
  /\ size(Transactions[last.tx].items) > 1

(***************************************************************************)
(* Properties of two sessions (specification SpecSessions)                  *)
(***************************************************************************)
\* C10: a call of a session other than the one whose transaction is open
\* records nothing in that transaction's ledger, queues nothing on its
\* execution stack, and neither closes it nor sets its rollback flag
C10_SessionsIsolated ==
  [][(/\ _transaction_id \in DOMAIN Transactions
      /\ last'.op \in {"start", "commit", "rollback", "cancel", "insert", "remove", "update"}
      /\ userId(last'.by) # Transactions[_transaction_id].user_id)
       => /\ _items' = _items
          /\ _executionStack' = _executionStack
          /\ _transaction_id' = _transaction_id
          /\ _rollback' = _rollback]_vars

(***************************************************************************)
(* Properties of the inverse of an update (specification SpecInverse)       *)
(***************************************************************************)
\* the step is rollback() of a transaction whose ledger is one instant update
RollsBackOne ==
  /\ last'.op = "rollback"
  /\ _transaction_id # NoTx
  /\ snap.tx = _transaction_id
  /\ _items.inserted = <<>>
  /\ _items.removed = <<>>
  /\ Len(_items.updated) = 1

\* field k is in the document
has(doc, k) == k \in ArrayFields \/ doc[k] # Undefined

\* every field the stored command names was in the document before the
\* transaction
AllThere(item) ==
  /\ item._id \in DOMAIN snap.pre
  /\ \A n \in 1..Len(item.update.data) : has(snap.pre[item._id], item.update.data[n].key)

\* C11: for every prior document and every set, unset, increment, addToSet or
\* pull command whose fields are all in it, the command followed by the inverse
\* that update synthesized leaves the document as it was on those fields
C11_InverseRoundTrip ==
  [][(RollsBackOne /\ AllThere(_items.updated[1])) => same(docs', snap.pre)]_vars

\* C12: the inverse of a set, unset or increment command is decided field by
\* field: fields that were there get their prior values back, fields that
\* were not there are removed
C12_InversePerField ==
  [][(RollsBackOne /\ _items.updated[1].update.command \in {"$set", "$unset", "$inc"})
       => same(docs', snap.pre)]_vars

(***************************************************************************)
(* Denial and cancellation (specification Spec)                             *)
(***************************************************************************)
\* C13: an insert, update or remove that fails the permission check returns
\* undefined without raising, sets the rollback flag and the reason
\* permission-denied, and changes nothing else: no write to the store, nothing
\* queued, no item, no transaction opened
C13_DenialOnlyFlags ==
  [][last'.effect = "denied" =>
       /\ last'.ret = "undefined"
       /\ _rollback'
       /\ _rollbackReason' = "permission-denied"
       /\ UNCHANGED <<_transaction_id, _autoTransaction, _executionStack, _items,
                      _startAttempts, _context, _autoCancel, timers, docs, Transactions,
                      nextId, clock>>]_vars

\* a lone write was denied: no transaction is open, the flag is set
C13_Witness ==
  /\ last.effect = "denied"
  /\ last.op \in {"insert", "update", "remove"}
  /\ _rollback
  /\ _rollbackReason = "permission-denied"
  /\ _transaction_id = NoTx
  /\ Transactions = <<>>

\* the step is the commit that closes a cancelled transaction with instant
\* writes in its ledger
ClosesCancelled ==
  /\ Reaches(last')
  /\ _transaction_id # NoTx
  /\ snap.tx = _transaction_id
  /\ _rollback
  /\ _rollbackReason = "transaction-cancelled"
  /\ \E kind \in {"inserted", "updated", "removed"} :
       \E n \in 1..Len(_items[kind]) : _items[kind][n].instant

\* C14: cancel() changes the rollback flag and reason only; after the next
\* commit of a cancelled transaction with instant writes every document is
\* back at its value before the transaction, also after several instant
\* updates of one field, the record is deleted and the state is Idle
C14_CancelThenCommitRestores ==
  [][/\ last'.op = "cancel" =>
          /\ _rollback'
          /\ _rollbackReason' = "transaction-cancelled"
          /\ UNCHANGED <<_transaction_id, _autoTransaction, _executionStack, _items,
                         _startAttempts, _context, _autoCancel, timers, docs, Transactions,
                         nextId, clock>>
     /\ ClosesCancelled =>
          /\ same(docs', snap.pre)
          /\ _transaction_id \notin DOMAIN Transactions'
          /\ Idle']_vars

(***************************************************************************)
(* Nested start() and stray commit (specification Spec)                     *)
(***************************************************************************)
\* what start() while a transaction is open is to do: no second record, the
\* id, ledger, stack and flag as they were, one more start attempt, false
NestedStartCounted ==
  /\ Transactions' = Transactions
  /\ UNCHANGED <<_transaction_id, _items, _executionStack, _rollback>>
  /\ _startAttempts' = _startAttempts + 1
  /\ last'.ret = "false"

\* C15, as stated: start() while a transaction is open creates no second
\* record, leaves id, ledger, stack and rollback flag unchanged, increments
\* the start attempts by exactly one and returns false
C15_NestedStart ==
  [][(last'.op = "start" /\ _transaction_id # NoTx) => NestedStartCounted]_vars

\* C15, for a caller who is logged in: start() while a transaction is open
\* creates no second record, leaves id, ledger, stack and rollback flag
\* unchanged, increments the start attempts by exactly one and returns false
C15_NestedStartLoggedIn ==
  [][(last'.op = "start" /\ _transaction_id # NoTx /\ userId(last'.by) # NoUser)
       => NestedStartCounted]_vars

\* a nested start() found an open transaction with a ledger and left it
C15_Witness ==
  /\ last.op = "start"
  /\ last.ret = "false"
  /\ userId(last.by) # NoUser
  /\ _transaction_id # NoTx
  /\ _transaction_id \in DOMAIN Transactions
  /\ size(_items) > 0
  /\ _startAttempts = 1

\* what commit with another id string, and then with the open id or null, is
\* to do while a transaction is open
StrayThenMatching ==
  /\ (last'.op = "commit" /\ last'.arg = "other") =>
       /\ last'.cb = "multiple-transactions-open"
       /\ _startAttempts' = _startAttempts - 1
       /\ UNCHANGED <<_transaction_id, _items, _executionStack, docs>>
  /\ (last'.op = "commit" /\ last'.arg \in {"match", "null"}) =>
       _transaction_id' = NoTx

\* C16, as stated: commit with an id string other than the open id reports
\* multiple-transactions-open, decrements the start attempts and leaves the
\* transaction open, id, ledger, stack and store unchanged; commit with the
\* open id or null then closes the transaction, whatever the start attempts
C16_StrayCommit ==
  [][_transaction_id # NoTx => StrayThenMatching]_vars

\* C16, for a caller who is logged in: the same
C16_StrayCommitLoggedIn ==
  [][(_transaction_id # NoTx /\ userId(last'.by) # NoUser) => StrayThenMatching]_vars

\* a stray commit left the open transaction and its ledger, with the start
\* attempts below zero
C16_Witness ==
  /\ last.op = "commit"
  /\ last.arg = "other"
  /\ last.cb = "multiple-transactions-open"
  /\ userId(last.by) # NoUser
  /\ _transaction_id # NoTx
  /\ size(_items) + Len(_executionStack) > 0
  /\ _startAttempts = -1

(***************************************************************************)
(* The idle timeout (specifications SpecTimer and Spec)                     *)
(***************************************************************************)
\* every transaction that is opened is closed in the end
EveryOpenLeaves ==
  \A x \in 1..MaxTx : (_transaction_id = x) ~> (_transaction_id # x)

\* the timeout that fires on an open transaction leaves the store as it was
\* before the transaction, no record of the transaction and the state Idle
TimeoutRestores ==
  [][(last'.op = "timeout" /\ _transaction_id # NoTx /\ snap.tx = _transaction_id) =>
       /\ same(docs', snap.pre)
       /\ _transaction_id \notin DOMAIN Transactions'
       /\ Idle']_vars

\* C17: on the server every transaction that is opened is closed in the end:
\* if no commit or rollback closes it the idle timeout rolls it back, and then
\* its instant writes are reversed, its record is deleted and the state is Idle
C17_TimeoutClosesAndRestores == EveryOpenLeaves /\ TimeoutRestores

\* C18: the idle timeout is cleared on every way out: while no transaction is
\* open no timeout is pending, at most one timeout is pending at any time, and
\* a timeout that fires finds open the transaction it was set for
C18_TimerCleared ==
  /\ [](_transaction_id = NoTx => timers = <<>>)
  /\ [](Len(timers) <= 1)
  /\ [][(last'.op = "timeout" /\ _transaction_id # NoTx)
          => last'.tx = _transaction_id]_vars

\* a timeout was reset by a write of the second transaction, after the first
\* was closed, and has fired on the second
C18_Witness ==
  /\ last.op = "timeout"
  /\ last.tx = 2
  /\ snap.tx = 2
  /\ nextId = 3
  /\ timers = <<>>
  /\ Idle

(***************************************************************************)
(* The in-flight state between calls (specification Spec)                   *)
(***************************************************************************)
\* C19, as stated: between calls, the ledger and the execution stack are both
\* empty if and only if no transaction is open
C19_EmptyIffNoTransaction ==
  (_items = NoItems /\ _executionStack = <<>>) <=> _transaction_id = NoTx

\* C19, the half that holds: between calls, if no transaction is open then the
\* ledger and the execution stack are both empty
C19_NoTransactionThenEmpty ==
  _transaction_id = NoTx => (_items = NoItems /\ _executionStack = <<>>)

\* a commit has drained the stack of a transaction with a ledger and closed it
C19_Witness ==
  /\ last.op = "commit"
  /\ last.queued > 0
  /\ last.drained > 0
  /\ snap.stage = "stored"
  /\ _transaction_id = NoTx
  /\ _items = NoItems
  /\ _executionStack = <<>>

(***************************************************************************)
(* undo() without an id (specification SpecLatest)                          *)
(***************************************************************************)
\* the committed transactions of a user that are neither undone nor expired:
\* commit has stored their ledgers
Undoable(by) ==
  {i \in DOMAIN Transactions : /\ Transactions[i].hasItems
                               /\ Transactions[i].user_id = userId(by)
                               /\ Transactions[i].undone = Undefined
                               /\ ~Transactions[i].expired}

\* the one of them with the greatest timestamp, NoTx when there is none
Latest(by) ==
  IF Undoable(by) = {} THEN NoTx
  ELSE CHOOSE i \in Undoable(by) :
         \A j \in Undoable(by) : Transactions[j].timestamp <= Transactions[i].timestamp

\* C20: undo() without an id acts on the caller's committed transaction with
\* the greatest timestamp among those neither undone nor expired and on no
\* other record, of the caller or of another user; an undo that is carried out
\* stamps it undone, so that successive calls take the caller's transactions
\* latest first
C20_UndoTakesLatestCommitted ==
  [][last'.op = "undo" =>
       /\ last'.tx = Latest(last'.by)
       /\ \A i \in DOMAIN Transactions \ {Latest(last'.by)} :
            i \in DOMAIN Transactions' /\ Transactions'[i] = Transactions[i]
       /\ (last'.tx # NoTx /\ last'.ret = "false") =>
            /\ last'.tx \in DOMAIN Transactions'
            /\ Transactions'[last'.tx].undone # Undefined]_vars

(***************************************************************************)
(* The drain of the execution stack (specification Spec)                    *)
(***************************************************************************)
\* what one deferred write does to the store when it is called for
\* transaction t: collection.insert, collection.remove, collection.update
thunkEffect(d, w, t) ==
  CASE w.kind = "insert" -> collInsert(d, w._id, [w.newDoc EXCEPT !["transaction_id"] = t])
    [] w.kind = "remove" ->
         IF ~selLive(d, w._id) THEN d
         ELSE IF w.soft THEN collUpdate(d, w._id, setDeleted(t))
         ELSE collRemove(d, w._id)
    [] OTHER -> collUpdate(d, w._id, withTransactionId(w.updates, t))

\* the store after the deferred writes of a stack, each once, oldest first
RECURSIVE inOrder(_, _, _)
inOrder(d, stack, t) ==
  IF stack = <<>> THEN d ELSE inOrder(thunkEffect(d, Head(stack), t), Tail(stack), t)

\* the step is a commit that succeeds on a transaction with deferred writes
DrainsAll ==
  /\ Reaches(last')
  /\ _transaction_id # NoTx
  /\ _executionStack # <<>>
  /\ last'.cb \in {"ok", "ok-id", "ok-ids"}

\* C21: a commit that succeeds applies the deferred writes to the store in
\* the order they were queued, each exactly once, and leaves the execution
\* stack empty
C21_DrainFifo ==
  [][DrainsAll =>
       /\ docs' = inOrder(docs, _executionStack, _transaction_id)
       /\ last'.drained = Len(_executionStack)
       /\ _executionStack' = <<>>]_vars

\* a commit has drained a $set and then an $inc of the same field, queued in
\* that order, which the other order would leave at another value
C21_Witness ==
  /\ last.op = "commit"
  /\ last.queued = 2
  /\ last.drained = 2
  /\ snap.stage = "stored"
  /\ snap.tx \in DOMAIN Transactions
  /\ Len(Transactions[snap.tx].items.updated) = 2
  /\ Transactions[snap.tx].items.updated[1].update.command = "$set"
  /\ Transactions[snap.tx].items.updated[2].update.command = "$inc"
  /\ Transactions[snap.tx].items.updated[1]._id = "d1"
  /\ Transactions[snap.tx].items.updated[2]._id = "d1"
  /\ ~Transactions[snap.tx].items.updated[1].instant
  /\ ~Transactions[snap.tx].items.updated[2].instant
  /\ docs["d1"]["a"] = 3
  /\ _executionStack = <<>>

(***************************************************************************)
(* The order of the ledger on record (specification Spec)                   *)
(***************************************************************************)
\* the sequence of the ledger that holds the items of an action
sequenceOf(op) ==
  CASE op = "insert" -> "inserted"
    [] op = "update" -> "updated"
    [] OTHER -> "removed"

\* the step is a commit that stores the ledger of the open transaction, and
\* the call before it was an accepted action of that transaction
StoresAfterAction ==
  /\ Reaches(last')
  /\ _transaction_id # NoTx
  /\ last'.cb \in {"ok", "ok-id", "ok-ids"}
  /\ last.op \in {"insert", "update", "remove"}
  /\ last.effect \in {"instant", "deferred"}
  /\ _transaction_id \in DOMAIN Transactions'
  /\ Transactions'[_transaction_id].hasItems

\* C22: in the ledger on record the items of each sequence are in the order
\* in which the application issued the actions, also when instant and
\* deferred actions of one kind are mixed; so the item of the action issued
\* last is the last of its sequence
C22_LedgerInActionOrder ==
  [][StoresAfterAction =>
       LET seq == Transactions'[_transaction_id].items[sequenceOf(last.op)] IN
       /\ seq # <<>>
       /\ seq[Len(seq)]._id = last.id
       /\ seq[Len(seq)].instant = (last.effect = "instant")]_vars

(***************************************************************************)
(* Rollback, item by item (specification Spec)                              *)
(***************************************************************************)
\* the instant items of a ledger in the order rollback takes them: removed,
\* updated, inserted
instantItems(items) ==
  LET tagged(kind) == [n \in 1..Len(items[kind]) |-> [kind |-> kind, obj |-> items[kind][n]]]
      all == tagged("removed") \o tagged("updated") \o tagged("inserted")
      RECURSIVE pick(_)
      pick(seq) == IF seq = <<>> THEN <<>>
                   ELSE IF Head(seq).obj.instant THEN <<Head(seq)>> \o pick(Tail(seq))
                   ELSE pick(Tail(seq))
  IN pick(all)

\* the inverse of one item raises: the document to insert again is there
raises(d, it) == it.kind = "removed" /\ it.obj.hasDoc /\ exists(d, it.obj._id)

\* the inverse of one item, for transaction t; one that raises changes nothing
tryInverse(d, it, t) ==
  CASE raises(d, it) -> d
    [] it.kind = "removed" ->
         IF it.obj.hasDoc THEN collInsert(d, it.obj._id, it.obj.doc)
         ELSE collUpdate(d, it.obj._id, unsetDeleted)
    [] it.kind = "updated" -> collUpdate(d, it.obj._id, operation(it.obj.inverse))
    [] OTHER -> IF selTx(d, it.obj._id, t) THEN collRemove(d, it.obj._id) ELSE d

\* the store after every inverse of a sequence of items has been tried
RECURSIVE bestEffort(_, _, _)
bestEffort(d, seq, t) ==
  IF seq = <<>> THEN d ELSE bestEffort(tryInverse(d, Head(seq), t), Tail(seq), t)

\* the step runs rollback on the in-flight state as it is: rollback(), the
\* timeout, or a commit that finds the flag set and something to take back
RunsRollback ==
  \/ last'.op \in {"rollback", "timeout"}
  \/ Reaches(last') /\ _transaction_id # NoTx /\ _rollback /\ ~nothingToDo(Cur)

\* C23: rollback tries the inverse of every instant item; when one raises the
\* others, before and after it in all three sequences, are applied all the
\* same, and in every case the record is deleted and the state is Idle
C23_RollbackBestEffort ==
  [][RunsRollback =>
       /\ docs' = bestEffort(docs, instantItems(_items), _transaction_id)
       /\ _transaction_id \notin DOMAIN Transactions'
       /\ Idle']_vars

\* a rollback whose insert of the removed d1 raised, because the transaction
\* had inserted d1 anew, has gone on to take the new d1 out
C23_Witness ==
  /\ last.op = "rollback"
  /\ snap.stage = "open"
  /\ snap.tx \notin DOMAIN Transactions
  /\ "d1" \in DOMAIN snap.pre
  /\ "d1" \notin DOMAIN docs
  /\ Idle

(***************************************************************************)
(* A store that raises during an instant write (specification SpecRaise)    *)
(***************************************************************************)
\* the reason that names the action
errorOf(op) ==
  CASE op = "insert" -> "insert-error"
    [] op = "update" -> "update-error"
    [] OTHER -> "remove-error"

C25_FlaggedActionsDoNothing ==
  [][(_rollback /\ last'.op \in {"insert", "update", "remove"}) =>
       /\ last'.ret = "undefined"
       /\ UNCHANGED <<docs, _items, _executionStack, _context, _transaction_id,
                      _rollbackReason>>]_vars

\* a logged-in caller's permitted instant update was turned away by the flag
\* of an open transaction that has a ledger
C25_Witness ==
  /\ last.op = "update"
  /\ last.effect = "rejected"
  /\ userId(last.by) # NoUser
  /\ _rollback
  /\ _transaction_id # NoTx
  /\ size(_items) > 0

(***************************************************************************)
(* An update of several commands (specification SpecInverse)                *)
(***************************************************************************)
\* the store after the commands on record in a sequence of updated items,
\* each applied once, in order
RECURSIVE eachOnce(_, _)
eachOnce(d, items) ==
  IF items = <<>> THEN d
  ELSE eachOnce(collUpdate(d, Head(items)._id, operation(Head(items).update)), Tail(items))

\* C26: one instant update call records one item per command of its modifier
\* and changes the document as one application of the whole modifier does:
\* each command on record has taken effect exactly once, so an increment by n
\* raises the field by exactly n
C26_EachCommandOnce ==
  [][(last'.op = "update" /\ last'.effect = "instant" /\ _transaction_id # NoTx) =>
       /\ Len(_items'.updated) > Len(_items.updated)
       /\ same(docs', eachOnce(docs, SubSeq(_items'.updated, Len(_items.updated) + 1,
                                           Len(_items'.updated))))]_vars

(***************************************************************************)
(* Deferred and instant actions of an explicit transaction (Spec)           *)
(***************************************************************************)
\* the deferred writes a call has appended to the execution stack
pushed == SubSeq(_executionStack', Len(_executionStack) + 1, Len(_executionStack'))

\* the call has queued its writes and done nothing else: one deferred write
\* for an insert or a remove, one per command of the modifier for an update
OnlyQueued ==
  /\ docs' = docs
  /\ _items' = _items
  /\ last'.ret = "true"
  /\ SubSeq(_executionStack', 1, Len(_executionStack)) = _executionStack
  /\ pushed # <<>>
  /\ \A n \in 1..Len(pushed) :
       /\ pushed[n].kind = last'.op
       /\ pushed[n]._id = last'.id
       /\ Len(pushed) = IF last'.op = "update" THEN Len(pushed[n].updates) ELSE 1

\* the call has written to the store and recorded its item as instant
DoneAtOnce ==
  LET seq == _items'[sequenceOf(last'.op)] IN
  /\ _executionStack' = _executionStack
  /\ Len(seq) = Len(_items[sequenceOf(last'.op)]) + 1
  /\ seq[Len(seq)].instant
  /\ seq[Len(seq)]._id = last'.id
  /\ CASE last'.op = "insert" -> selTx(docs', last'.id, _transaction_id)
       [] last'.op = "remove" -> ~exists(docs', last'.id)
       [] OTHER -> exists(docs, last'.id) => selTx(docs', last'.id, _transaction_id)

\* the deferred half of C27: an action that is not instant only queues, and
\* the items of the deferred writes come on record with a commit that succeeds
DeferredUntilCommit ==
  /\ (_transaction_id # NoTx /\ ~_autoTransaction /\ last'.effect = "deferred")
       => OnlyQueued
  /\ DrainsAll =>
       /\ _transaction_id \in DOMAIN Transactions'
       /\ size(Transactions'[_transaction_id].items) = size(_items) + Len(_executionStack)

\* C27, as stated: in an explicitly started transaction an action that is not
\* instant leaves the store and the ledger alone, appends one deferred write
\* per command to the execution stack and returns true, and its write and its
\* item appear with a commit that succeeds; an instant action writes to the
\* store and records its item with instant = TRUE before it returns
C27_DeferredUntilCommit ==
  [][/\ DeferredUntilCommit
     /\ (_transaction_id # NoTx /\ ~_autoTransaction /\ last'.effect = "instant")
          => DoneAtOnce]_vars

\* C27, with the instant half for an action on which the store does not
\* raise: the same
C27_DeferredUntilCommitUnlessRaised ==
  [][/\ DeferredUntilCommit
     /\ (_transaction_id # NoTx /\ ~_autoTransaction /\ last'.effect = "instant"
           /\ last'.ret # "false")
          => DoneAtOnce]_vars

\* an update of two commands has queued two deferred writes in an explicit
\* transaction and has left the store and the ledger alone
C27_Witness ==
  /\ last.op = "update"
  /\ last.effect = "deferred"
  /\ last.ret = "true"
  /\ last.queued = 0
  /\ Len(_executionStack) = 2
  /\ _items = NoItems
  /\ _transaction_id # NoTx
  /\ ~_autoTransaction
  /\ snap.tx = _transaction_id
  /\ docs = snap.pre

(***************************************************************************)
(* C28: a failure does not leak into the next unit of work                  *)
(***************************************************************************)
\* C28: in every reachable state in which no transaction is open the
\* rollback flag is false
C28_NoFlagWithoutTransaction == _transaction_id = NoTx => ~_rollback

\* what the flag left behind does: a write by the logged-in user that finds
\* no transaction open and is permitted is either performed or queued
LoneWriteTaken ==
  [][(/\ _transaction_id = NoTx
      /\ last'.op \in {"insert", "update", "remove"}
      /\ last'.by \in One
      /\ last'.effect # "denied")
        => last'.effect \in {"instant", "deferred"}]_vars

(***************************************************************************)
(* C29: undo() between start() and commit() (specification SpecLatest)      *)
(***************************************************************************)
\* the step is a commit that succeeds on a transaction whose ledger, with the
\* deferred writes still to be recorded, is not empty
CommitsLedger ==
  /\ Reaches(last')
  /\ _transaction_id # NoTx
  /\ size(_items) + Len(_executionStack) > 0
  /\ last'.cb \in {"ok", "ok-id", "ok-ids"}

\* C29: a transaction that commits successfully with a non-empty ledger has,
\* after commit returns, a record in Transactions that carries its ledger,
\* whatever undo() calls came between its start() and its commit()
C29_CommitKeepsRecord ==
  [][CommitsLedger =>
       /\ _transaction_id \in DOMAIN Transactions'
       /\ Transactions'[_transaction_id].hasItems
       /\ size(Transactions'[_transaction_id].items)
            = size(_items) + Len(_executionStack)]_vars

(***************************************************************************)
(* C30: two undos after an insert and an update of the same document        *)
(* (specification SpecLatest)                                               *)
(***************************************************************************)
\* only transactions 1 and 2 were ever started, both by user by: 1 is
\* committed with the insert of document d as its one item, 2 with one update
\* of d, and no transaction is open
InsertedThenUpdated(by, d) ==
  /\ nextId = 3
  /\ _transaction_id = NoTx
  /\ DOMAIN Transactions = {1, 2}
  /\ \A i \in {1, 2} : /\ Transactions[i].hasItems
                        /\ Transactions[i].user_id = userId(by)
                        /\ ~Transactions[i].expired
                        /\ size(Transactions[i].items) = 1
  /\ Len(Transactions[1].items.inserted) = 1
  /\ Transactions[1].items.inserted[1]._id = d
  /\ Len(Transactions[2].items.updated) = 1
  /\ Transactions[2].items.updated[1]._id = d

\* the step is the second of the two undos: the first has stamped
\* transaction 2 undone, this one takes transaction 1
SecondUndo(by, d) ==
  /\ InsertedThenUpdated(by, d)
  /\ Transactions[2].undone # Undefined
  /\ Transactions[1].undone = Undefined
  /\ last'.op = "undo"
  /\ last'.by = by
  /\ last'.tx = 1

\* C30: after transaction 1 that inserts d and transaction 2 that updates d,
\* with no other write, the second of two undos is not expired and leaves d
\* absent
C30_UndoUnwinds ==
  [][\A by \in Two, d \in DocIds :
       SecondUndo(by, d) => /\ last'.ret = "false"
                            /\ ~exists(docs', d)
                            /\ Transactions'[1].undone # Undefined]_vars

\* the first of the two undos takes transaction 2, is not expired and puts
\* the fields the update changed back
FirstUndoTakesUpdate ==
  [][\A by \in Two, d \in DocIds :
       (/\ InsertedThenUpdated(by, d)
        /\ Transactions[2].undone = Undefined
        /\ Transactions[1].undone = Undefined
        /\ last'.op = "undo"
        /\ last'.by = by)
         => /\ last'.tx = 2
            /\ last'.ret = "false"
            /\ Transactions'[2].undone # Undefined]_vars

(***************************************************************************)
(* C31: nested starts balanced by commits (specification Spec)              *)
(***************************************************************************)
\* the commit of a nested start(): the callback gets
\* multiple-transactions-open, one start attempt less, and the transaction
\* stays open with its record, ledger, stack and the store as they were
BalancesOne ==
  /\ last'.cb = "multiple-transactions-open"
  /\ _startAttempts' = _startAttempts - 1
  /\ Transactions' = Transactions
  /\ UNCHANGED <<_transaction_id, _items, _executionStack, docs>>

\* what a commit that finds a transaction open with n start attempts
\* outstanding is to do: balance one of them while n > 0, close the
\* transaction when none is left
Balanced ==
  IF _startAttempts > 0 THEN BalancesOne ELSE _transaction_id' = NoTx

\* C31, as stated: with k nested starts outstanding, each of the first k
\* commits made without the matching id (with no id or with another id)
\* reports multiple-transactions-open and leaves ledger, stack and store
\* unchanged, and the commit after them closes the transaction
C31_NestedBalanced ==
  [][(/\ last'.op = "commit"
      /\ last'.arg \in {"none", "other"}
      /\ _transaction_id # NoTx)
        => Balanced]_vars

\* C31, for commits with no id by a caller who is logged in: the same
C31_NestedBalancedNoId ==
  [][(/\ last'.op = "commit"
      /\ last'.arg = "none"
      /\ userId(last'.by) # NoUser
      /\ _transaction_id # NoTx)
        => Balanced]_vars

\* a commit with no id has balanced the one nested start and has left the
\* open transaction with its queued writes
C31_Witness ==
  /\ last.op = "commit"
  /\ last.arg = "none"
  /\ last.cb = "multiple-transactions-open"
  /\ userId(last.by) # NoUser
  /\ _transaction_id # NoTx
  /\ _executionStack # <<>>
  /\ _startAttempts = 0

(***************************************************************************)
(* C32: no transaction is abandoned half-done (specification Spec)          *)
(***************************************************************************)
\* C32: whenever the in-flight state is Idle, the transactions collection
\* holds no record without items
C32_NoRecordWithoutItems ==
  Idle => \A i \in DOMAIN Transactions : Transactions[i].hasItems

\* the step takes the in-flight state from an open transaction to none, and
\* leaves either the record with the ledger of a commit that succeeded or no
\* record of the transaction
ClosedWhole ==
  [][(_transaction_id # NoTx /\ _transaction_id' = NoTx) =>
       \/ /\ _transaction_id \in DOMAIN Transactions'
          /\ Transactions'[_transaction_id].hasItems
          /\ last'.cb \in {"ok", "ok-id", "ok-ids"}
       \/ _transaction_id \notin DOMAIN Transactions']_vars

\* the same for the calls of a caller who is logged in and for the timeout
ClosedWholeLoggedIn ==
  [][(_transaction_id # NoTx /\ _transaction_id' = NoTx
        /\ (last'.op = "timeout" \/ userId(last'.by) # NoUser)) =>
       \/ /\ _transaction_id \in DOMAIN Transactions'
          /\ Transactions'[_transaction_id].hasItems
          /\ last'.cb \in {"ok", "ok-id", "ok-ids"}
       \/ _transaction_id \notin DOMAIN Transactions']_vars

=============================================================================
